---- MODULE Spec2Model ----
(***************************************************************************)
(* Paillier e-voting demonstration (src/src/main.rs): the voter side       *)
(* encodes and encrypts one vote, the authority side reads its secret,     *)
(* collects ciphertexts on a stack (submit / "pop" / "x"), multiplies them *)
(* mod N^2, decrypts the product and decodes the per-candidate counts.     *)
(*                                                                         *)
(* Integers: the program works in U128.  Every value the model handles is  *)
(* below 2^31, so the checked_* operations of the source never overflow    *)
(* here; products that would leave 31 bits are computed digit by digit     *)
(* (MulMod), with the same mathematical result as the library call.        *)
(***************************************************************************)
EXTENDS Integers, Sequences, FiniteSets, TLC

VARIABLES
    pc,               \* position in main(): voting, authority, collecting, reported, panicked
    r,                \* main.rs:67   the voter's nonce
    vote_message,     \* main.rs:74   the encoded plaintext
    vote_ciphertext,  \* main.rs:89   the voter's ciphertext ("ci = ...")
    phi_n,            \* main.rs:137  the private half of authority_keypair
    input,            \* main.rs:115  the line buffer, as left by the last read
    vote_stack,       \* main.rs:151
    i,                \* main.rs:152  the prompt counter of the collection loop
    m,                \* main.rs:176  the plaintext displayed for the last submission
    product,          \* main.rs:182
    m_total,          \* main.rs:187
    tally,            \* main.rs:204  votes_for_candidate, one per candidate
    votes,            \* main.rs:200  the sum of the decoded counts
    n_voters,         \* main.rs:210
    report,           \* main.rs:212-220  the reconciliation line: <<kind, amount>>
    panic,            \* the message of the expect()/assert!() that aborted the process
    history,          \* history variable: the collection-loop operations so far
    args,             \* inputs of the primitives when they are exercised on their own
    out               \* results of the primitives when they are exercised on their own

vars == <<pc, r, vote_message, vote_ciphertext, phi_n, input, vote_stack, i, m,
          product, m_total, tally, votes, n_voters, report, panic, history, args, out>>

----------------------------------------------------------------------------
(* Program constants *)

N_VOTERS == 16
N_CANDIDATES == 3
CHOSEN_CANDIDATE_IDX == 0
NUM_BITS_WORKING == 14
N == 14351

(* Bounds of the model *)

\* generate_safe_prime draws among the safe primes in 2^13 .. 2^13 + RWindow
RWindow == 400
\* lines read by the collection loop in one session
MaxInputs == 4
\* candidate indices tried on the encoder
MaxIdx == 4
\* small plaintexts tried on the cipher: 0 .. MaxPlain
MaxPlain == 2
\* the last code point of the contiguous part of the line alphabet (U+017F)
MaxChar == 383

----------------------------------------------------------------------------
(* Arithmetic of crypto_bigint, on values below 2^31 *)

RECURSIVE Pow2(_)
Pow2(k) == IF k = 0 THEN 1 ELSE 2 * Pow2(k - 1)

\* usize::ilog2: floor(log2(x)), x > 0
RECURSIVE ilog2(_)
ilog2(x) == IF x < 2 THEN 0 ELSE 1 + ilog2(x \div 2)

\* Uint::mul_mod: a * b mod md, for any a, b and md < 2^28.
\* The product is accumulated three bits of b at a time so that no
\* intermediate value leaves 31 bits.
RECURSIVE MulModReduced(_, _, _)
MulModReduced(a, b, md) ==
    IF b = 0 THEN 0
    ELSE LET h == MulModReduced(a, b \div 8, md)
         IN  (((a * (b % 8)) % md) + ((h * 8) % md)) % md

mul_mod(a, b, md) == MulModReduced(a % md, b % md, md)

\* MontyForm::new(x, params), .mul, .retrieve: arithmetic on residues mod md
MontyNew(x, md) == x % md

\* MontyForm::pow: square-and-multiply, an exponent of 0 gives 1
RECURSIVE MontyPow(_, _, _)
MontyPow(b, e, md) ==
    IF e = 0 THEN 1 % md
    ELSE LET h == MontyPow(b, e \div 2, md)
             s == MulModReduced(h, h, md)
         IN  IF e % 2 = 1 THEN MulModReduced(s, b, md) ELSE s

\* extended Euclid on (a, md): <<g, x>> with a * x = g (mod md)
RECURSIVE ExtGcd(_, _, _, _)
ExtGcd(r0, r1, x0, x1) ==
    IF r1 = 0 THEN <<r0, x0>>
    ELSE ExtGcd(r1, r0 % r1, x1, x0 - (r0 \div r1) * x1)

\* Uint::inv_mod: the inverse of a mod md, or None (-1) when there is none
inv_mod(a, md) ==
    LET gx == ExtGcd(md, a % md, 0, 1)
    IN  IF gx[1] = 1 THEN gx[2] % md ELSE -1

\* bitwise and of two naturals (u64 & u64)
RECURSIVE BitAnd(_, _)
BitAnd(a, b) ==
    IF a = 0 \/ b = 0 THEN 0
    ELSE 2 * BitAnd(a \div 2, b \div 2) + (IF a % 2 = 1 /\ b % 2 = 1 THEN 1 ELSE 0)

\* Uint::as_words().first(): the low 64-bit word.  Every value the model
\* reaches is below 2^31, where the low word is the value itself.
LowWord(x) == x

----------------------------------------------------------------------------
(* Text: a line is a sequence of characters, each its Unicode code point *)

\* the printable ASCII characters, U+0020 to U+007E in code-point order
\* (U+0022, U+005C and U+0060 stand under their names)
Ascii ==
    << " ", "!", "QUOTATION MARK", "#", "$", "%", "&", "'", "(", ")", "*", "+",
       ",", "-", ".", "/", "0", "1", "2", "3", "4", "5", "6", "7",
       "8", "9", ":", ";", "<", "=", ">", "?", "@", "A", "B", "C",
       "D", "E", "F", "G", "H", "I", "J", "K", "L", "M", "N", "O",
       "P", "Q", "R", "S", "T", "U", "V", "W", "X", "Y", "Z", "[",
       "REVERSE SOLIDUS", "]", "^", "_", "GRAVE ACCENT", "a", "b", "c", "d", "e", "f", "g",
       "h", "i", "j", "k", "l", "m", "n", "o", "p", "q", "r", "s",
       "t", "u", "v", "w", "x", "y", "z", "{", "|", "}", "~" >>

\* the code point of a printable ASCII character, and the line a sequence
\* of such characters spells
Code(ch) == 31 + (CHOOSE k \in 1..Len(Ascii) : Ascii[k] = ch)

Str(s) == [k \in 1..Len(s) |-> Code(s[k])]

IsDigit(c) == c >= Code("0") /\ c <= Code("9")

DigitVal(c) == c - Code("0")

\* Uint::to_string_radix_vartime(10)
RECURSIVE ToDec(_)
ToDec(x) ==
    IF x < 10 THEN <<Code("0") + x>>
    ELSE Append(ToDec(x \div 10), Code("0") + (x % 10))

RECURSIVE DecValue(_)
DecValue(s) ==
    IF s = <<>> THEN 0
    ELSE 10 * DecValue(SubSeq(s, 1, Len(s) - 1)) + DigitVal(s[Len(s)])

\* Uint::from_str_radix_vartime(s, 10): the value, or an error (-1).  One
\* leading "+" is allowed and "_" may separate digits; an empty digit
\* string, a leading or trailing "_" and any other character are errors.
from_str_radix(s) ==
    LET body == IF s # <<>> /\ s[1] = Code("+") THEN Tail(s) ELSE s
    IN  IF body = <<>> THEN -1
        ELSE IF body[1] = Code("_") \/ body[Len(body)] = Code("_") THEN -1
        ELSE LET digits == SelectSeq(body, LAMBDA c : c # Code("_"))
             IN  IF \E k \in 1..Len(digits) : ~IsDigit(digits[k]) THEN -1
                 ELSE DecValue(digits)

\* char::is_whitespace: the White_Space code points
WhiteSpace ==
    (9..13) \cup {32, 133, 160, 5760} \cup (8192..8202)
        \cup {8232, 8233, 8239, 8287, 12288}

is_whitespace(c) == c \in WhiteSpace

\* the characters a line of the collection loop is made of: U+0000 to
\* MaxChar (Basic Latin, Latin-1 Supplement, Latin Extended-A), every
\* White_Space character, and three characters beyond whose lower case is
\* ASCII (U+212A) or depends on the context (U+03A3 after U+0391)
Alphabet == (0..MaxChar) \cup WhiteSpace \cup {913, 931, 8490}

InAlphabet(s) == \A k \in 1..Len(s) : s[k] \in Alphabet

\* membership of a code point in a table of runs <<first, last, step, ...>>
InRuns(c, runs) ==
    \E k \in 1..Len(runs) :
        /\ runs[k][1] <= c
        /\ c <= runs[k][2]
        /\ (c - runs[k][1]) % runs[k][3] = 0

\* core::unicode lowercase table, its rows for U+0000..U+024F and for the
\* three characters beyond: the characters whose lower case is one other
\* character, as runs <<first, last, step, delta>> with lower case =
\* code point + delta
LowerRuns ==
    << <<65, 90, 1, 32>>, <<192, 214, 1, 32>>, <<216, 222, 1, 32>>,
       <<256, 302, 2, 1>>, <<306, 310, 2, 1>>, <<313, 327, 2, 1>>,
       <<330, 374, 2, 1>>, <<376, 376, 1, -121>>, <<377, 381, 2, 1>>,
       <<385, 385, 1, 210>>, <<386, 388, 2, 1>>, <<390, 390, 1, 206>>,
       <<391, 391, 1, 1>>, <<393, 394, 1, 205>>, <<395, 395, 1, 1>>,
       <<398, 398, 1, 79>>, <<399, 399, 1, 202>>, <<400, 400, 1, 203>>,
       <<401, 401, 1, 1>>, <<403, 403, 1, 205>>, <<404, 404, 1, 207>>,
       <<406, 406, 1, 211>>, <<407, 407, 1, 209>>, <<408, 408, 1, 1>>,
       <<412, 412, 1, 211>>, <<413, 413, 1, 213>>, <<415, 415, 1, 214>>,
       <<416, 420, 2, 1>>, <<422, 422, 1, 218>>, <<423, 423, 1, 1>>,
       <<425, 425, 1, 218>>, <<428, 428, 1, 1>>, <<430, 430, 1, 218>>,
       <<431, 431, 1, 1>>, <<433, 434, 1, 217>>, <<435, 437, 2, 1>>,
       <<439, 439, 1, 219>>, <<440, 440, 1, 1>>, <<444, 444, 1, 1>>,
       <<452, 452, 1, 2>>, <<453, 453, 1, 1>>, <<455, 455, 1, 2>>,
       <<456, 456, 1, 1>>, <<458, 458, 1, 2>>, <<459, 475, 2, 1>>,
       <<478, 494, 2, 1>>, <<497, 497, 1, 2>>, <<498, 500, 2, 1>>,
       <<502, 502, 1, -97>>, <<503, 503, 1, -56>>, <<504, 542, 2, 1>>,
       <<544, 544, 1, -130>>, <<546, 562, 2, 1>>, <<570, 570, 1, 10795>>,
       <<571, 571, 1, 1>>, <<573, 573, 1, -163>>, <<574, 574, 1, 10792>>,
       <<577, 577, 1, 1>>, <<579, 579, 1, -195>>, <<580, 580, 1, 69>>,
       <<581, 581, 1, 71>>, <<582, 590, 2, 1>>, <<913, 913, 1, 32>>,
       <<931, 931, 1, 32>>, <<8490, 8490, 1, -8383>> >>

\* core::unicode::Cased, its rows for the same characters, as runs
\* <<first, last, step>>
CasedRuns ==
    << <<65, 90, 1>>, <<97, 122, 1>>, <<170, 170, 1>>, <<181, 181, 1>>,
       <<186, 186, 1>>, <<192, 446, 2>>, <<193, 213, 2>>, <<217, 245, 2>>,
       <<249, 441, 2>>, <<445, 447, 2>>, <<452, 591, 1>>, <<913, 913, 1>>,
       <<931, 931, 1>>, <<8490, 8490, 1>> >>

\* core::unicode::Case_Ignorable, its rows for the same characters, as
\* runs <<first, last, step>>
CaseIgnorableRuns ==
    << <<39, 39, 1>>, <<46, 46, 1>>, <<58, 58, 1>>, <<94, 96, 2>>,
       <<168, 168, 1>>, <<173, 175, 2>>, <<180, 180, 1>>, <<183, 184, 1>> >>

\* core::unicode::Cased and Case_Ignorable, on the alphabet
Cased == [c \in Alphabet |-> InRuns(c, CasedRuns)]

Case_Ignorable == [c \in Alphabet |-> InRuns(c, CaseIgnorableRuns)]

\* core::unicode::conversions::to_lower, on the alphabet: the lower case
\* of one character, which is two characters for U+0130
to_lower ==
    [c \in Alphabet |->
        IF c < 128
        THEN (IF c >= Code("A") /\ c <= Code("Z") THEN <<c + 32>> ELSE <<c>>)
        ELSE IF c = 304 THEN <<105, 775>>
        ELSE IF InRuns(c, LowerRuns)
        THEN LET k == CHOOSE j \in 1..Len(LowerRuns) :
                          /\ LowerRuns[j][1] <= c
                          /\ c <= LowerRuns[j][2]
                          /\ (c - LowerRuns[j][1]) % LowerRuns[j][3] = 0
             IN  <<c + LowerRuns[k][4]>>
        ELSE <<c>>]

Reverse(s) == [k \in 1..Len(s) |-> s[Len(s) + 1 - k]]

\* str::to_lowercase, case_ignorable_then_cased: the first character that
\* is not Case_Ignorable exists and is Cased
RECURSIVE case_ignorable_then_cased(_)
case_ignorable_then_cased(s) ==
    IF s = <<>> THEN FALSE
    ELSE IF Case_Ignorable[s[1]] THEN case_ignorable_then_cased(Tail(s))
    ELSE Cased[s[1]]

\* str::to_lowercase, map_uppercase_sigma: U+03A3 at position k becomes the
\* final sigma U+03C2 at the end of a word and U+03C3 elsewhere
map_uppercase_sigma(s, k) ==
    IF /\ case_ignorable_then_cased(Reverse(SubSeq(s, 1, k - 1)))
       /\ ~case_ignorable_then_cased(SubSeq(s, k + 1, Len(s)))
    THEN 962 ELSE 963

RECURSIVE LowerFrom(_, _)
LowerFrom(s, k) ==
    IF k > Len(s) THEN <<>>
    ELSE (IF s[k] = 931 THEN <<map_uppercase_sigma(s, k)>> ELSE to_lower[s[k]])
         \o LowerFrom(s, k + 1)

\* str::to_lowercase, of a line over the alphabet
to_lowercase(s) == LowerFrom(s, 1)

\* str::trim: leading and trailing whitespace removed
RECURSIVE trim(_)
trim(s) ==
    IF s = <<>> THEN s
    ELSE IF is_whitespace(s[1]) THEN trim(Tail(s))
    ELSE IF is_whitespace(s[Len(s)]) THEN trim(SubSeq(s, 1, Len(s) - 1))
    ELSE s

\* Stdin::read_line: the typed line is appended to the (empty) buffer with
\* its line feed U+000A
read_line(typed) == Append(typed, 10)

\* str::replace of U+0020 by nothing: no other blank is removed
RemoveBlanks(s) == SelectSeq(s, LAMBDA c : c # Code(" "))

\* str::contains(",")
ContainsComma(s) == \E k \in 1..Len(s) : s[k] = Code(",")

\* str::split(','): the fields between commas, empty ones included
RECURSIVE split(_)
split(s) ==
    IF ~ContainsComma(s) THEN <<s>>
    ELSE LET k == CHOOSE j \in 1..Len(s) :
                      s[j] = Code(",") /\ \A h \in 1..(j - 1) : s[h] # Code(",")
         IN  <<SubSeq(s, 1, k - 1)>> \o split(SubSeq(s, k + 1, Len(s)))

----------------------------------------------------------------------------
(* Keys *)

\* a value, or the panic that ended the computation
Ok(v) == [ok |-> TRUE, val |-> v, msg |-> ""]
Err(t) == [ok |-> FALSE, val |-> 0, msg |-> t]

\* AuthorityPrivateKey::get_phi_n
get_phi_n(p, q) ==
    IF p < 1 THEN Err("p-1 must not underflow.")
    ELSE IF q < 1 THEN Err("q-1 must not underflow.")
    ELSE Ok((p - 1) * (q - 1))

\* AuthorityPrivateKey::from_primes
from_primes(p, q) == get_phi_n(p, q)

\* AuthorityPrivateKey::from_phi_n
from_phi_n(phi) == Ok(phi)

\* AuthorityKeypair { private_key, public_key: AuthorityPublicKey::new(n) }
AuthorityKeypair(phi) == [phi_n |-> phi, n |-> N]

\* main: the authority's secret from the line read at the prompt
AuthorityPriv(line) ==
    IF ContainsComma(line)
    THEN LET fields == split(line)
         IN  IF Len(fields) # 2 THEN Err("assertion failed: split.len() == 2")
             ELSE LET p == from_str_radix(fields[1])
                      q == from_str_radix(fields[2])
                  IN  IF p < 0
                      THEN Err("p must be a valid Uint. Check if in word size bounds.")
                      ELSE IF q < 0
                      THEN Err("q must be a valid Uint. Check if in word size bounds.")
                      ELSE from_primes(p, q)
    ELSE LET phi == from_str_radix(line)
         IN  IF phi < 0
             THEN Err("phi(n) must be a valid Uint. Check if the word size is sufficient.")
             ELSE from_phi_n(phi)

----------------------------------------------------------------------------
(* Encoding, encryption, decryption, aggregation, decoding *)

per_candidate_bits == ilog2(N_VOTERS)

\* main: vote_shift, its assertion, and vote_message
Encode(idx) ==
    LET vote_shift == idx * per_candidate_bits
    IN  IF vote_shift <= per_candidate_bits * N_CANDIDATES
        THEN Ok(Pow2(vote_shift))
        ELSE Err("assertion failed: vote_shift <= per_candidate_bits * N_CANDIDATES")

\* main: the vote_ciphertext block, c = (N+1)^msg * rr^N mod N^2
Encrypt(msg, rr) ==
    LET n_squared == N * N
        n_plus_one_pow_m == MontyPow(MontyNew(N + 1, n_squared), msg, n_squared)
        r_pow_n == MontyPow(MontyNew(rr, n_squared), N, n_squared)
    IN  MulModReduced(n_plus_one_pow_m, r_pow_n, n_squared)

\* decrypt without d3: the quotient d2 is returned as the plaintext
decrypt_without_inverse(ciphertext, keypair) ==
    LET n == keypair.n
        d1 == MontyPow(MontyNew(ciphertext, n * n), keypair.phi_n, n * n)
    IN  IF d1 = 0 THEN Err("d1-1 must not underflow, d1 must not be 0.")
        ELSE Ok(((d1 - 1) \div n) % n)

\* decrypt(ciphertext, authority_keypair)
decrypt(ciphertext, keypair) ==
    LET n == keypair.n
        phi == keypair.phi_n
        n_squared == n * n
        d1 == MontyPow(MontyNew(ciphertext, n_squared), phi, n_squared)
        d2 == ((d1 - 1) \div n) % n
        d3 == inv_mod(phi, n)
    IN  IF n_squared % 2 = 0
        THEN Err("N^2 must be odd, because p is odd and q is odd. odd*odd->odd, odd^2=odd.")
        ELSE IF n = 0 THEN Err("N must not be 0.")
        ELSE IF d1 = 0 THEN Err("d1-1 must not underflow, d1 must not be 0.")
        ELSE IF d3 < 0 THEN Err("Phi(N) must have a multiplicative inverse.")
        ELSE Ok(mul_mod(d2, d3, n))

\* the fold step with add_mod in place of mul_mod
FoldStepAdd(acc, vote) == ((acc % (N * N)) + (vote % (N * N))) % (N * N)

\* the fold step that overwrites the accumulator instead of multiplying into it
FoldStepOverwrite(acc, vote) == vote % (N * N)

\* main: one step of the fold, acc.mul_mod(vote, n_squared)
FoldStep(acc, vote) == mul_mod(acc, vote, N * N)

\* main: vote_stack.iter().fold(ONE, ...)
RECURSIVE Aggregate(_)
Aggregate(stack) ==
    IF stack = <<>> THEN 1
    ELSE FoldStep(Aggregate(SubSeq(stack, 1, Len(stack) - 1)), stack[Len(stack)])

\* main: votes_for_candidate of candidate k (0-based) in the decode loop
VotesForCandidate(m_total_small, k) ==
    LET mask == N_VOTERS - 1
        votes_shifted == m_total_small \div Pow2(per_candidate_bits * k)
    IN  BitAnd(votes_shifted, mask)

\* main: the decode loop; entry k + 1 is candidate k
Decode(m_total_small) ==
    [k \in 1..N_CANDIDATES |-> VotesForCandidate(m_total_small, k - 1)]

RECURSIVE SumSeq(_)
SumSeq(s) == IF s = <<>> THEN 0 ELSE s[Len(s)] + SumSeq(SubSeq(s, 1, Len(s) - 1))

\* main: the reconciliation line
Reconcile(v, nv) ==
    IF v > nv THEN <<"surplus", v - nv>>
    ELSE IF v = nv THEN <<"exact", 0>>
    ELSE <<"deficit", nv - v>>

----------------------------------------------------------------------------
(* The inputs the model draws *)

IsPrime(x) == x > 1 /\ \A d \in 2..x : d * d > x \/ x % d # 0

\* generate_safe_prime(NUM_BITS_WORKING): a prime x of exactly that many
\* bits with (x - 1) / 2 prime too; the model draws within RWindow of 2^13
SafePrimes ==
    {x \in Pow2(NUM_BITS_WORKING - 1)..(Pow2(NUM_BITS_WORKING - 1) + RWindow) :
        x < Pow2(NUM_BITS_WORKING) /\ IsPrime(x) /\ IsPrime((x - 1) \div 2)}

\* the factors of the public modulus, and its totient: the authority's secret
FactorP == CHOOSE d \in 2..N : N % d = 0
FactorQ == N \div FactorP
Totient == (FactorP - 1) * (FactorQ - 1)

\* lines typed at the "(p,q) or phi(n)?" prompt, without their line feed
SecretLines ==
    { ToDec(FactorP) \o Str(<<",">>) \o ToDec(FactorQ),
      Str(<<" ">>) \o ToDec(FactorP) \o Str(<<",", " ">>) \o ToDec(FactorQ),
      <<9>> \o ToDec(Totient) \o <<13>>,
      <<11>> \o ToDec(Totient) \o <<160>>,
      Str(<<"+">>) \o ToDec(Totient),
      ToDec(Totient),
      ToDec(FactorP) \o Str(<<",">>) \o <<160>> \o ToDec(FactorQ),
      Str(<<"3", ",", "5">>),
      Str(<<"0">>),
      Str(<<"0", ",", "5">>),
      Str(<<"1", ",", "2", ",", "3">>),
      Str(<<"a", "b", "c">>) }

\* lines typed at the numbered prompt of the collection loop, without their
\* line feed, over the alphabet; ci is the ciphertext the voter side printed
CollectLines(ci) ==
  { line \in
    { Str(<<"x">>), Str(<<"X", " ">>), <<9>> \o Str(<<"x">>), Str(<<"x">>) \o <<13>>,
      <<11>> \o Str(<<"x">>),
      Str(<<"p", "o", "p">>), Str(<<" ", "P", "O", "P">>), Str(<<"p", "o", "p">>) \o <<9>>,
      <<160>> \o Str(<<"p", "o", "p">>) \o <<133>>,
      ToDec(ci),
      Str(<<"0">>),
      ToDec(FactorP),
      ToDec(FactorQ),
      Str(<<"+">>) \o ToDec(ci),
      Str(<<"1", "_", "2">>),
      ToDec(N * N + 2),
      Str(<<"1", "2", "a">>),
      Str(<<"_", "1">>),
      <<8490>>,
      <<304>>,
      <<201>>,
      <<913, 931>> } : InAlphabet(line) }

----------------------------------------------------------------------------
(* main() *)

Init ==
    /\ pc = "voting"
    /\ r = 0
    /\ vote_message = 0
    /\ vote_ciphertext = 0
    /\ phi_n = 0
    /\ input = <<>>
    /\ vote_stack = <<>>
    /\ i = 0
    /\ m = 0
    /\ product = 0
    /\ m_total = 0
    /\ tally = <<>>
    /\ votes = 0
    /\ n_voters = 0
    /\ report = <<"none", 0>>
    /\ panic = ""
    /\ history = <<>>
    /\ args = <<>>
    /\ out = <<>>

Abort(msg) ==
    /\ pc' = "panicked"
    /\ panic' = msg

\* main.rs:66-111  the voting stage
Vote ==
    /\ pc = "voting"
    /\ \E rr \in SafePrimes :
          LET enc == Encode(CHOSEN_CANDIDATE_IDX)
          IN  /\ r' = rr
              /\ IF enc.ok
                 THEN /\ vote_message' = enc.val
                      /\ vote_ciphertext' = Encrypt(enc.val, rr)
                      /\ pc' = "authority"
                      /\ UNCHANGED panic
                 ELSE /\ Abort(enc.msg)
                      /\ UNCHANGED <<vote_message, vote_ciphertext>>
    /\ UNCHANGED <<phi_n, input, vote_stack, i, m, product, m_total, tally, votes,
                   n_voters, report, history, args, out>>

\* main.rs:113-151  the authority's secret is read and the key pair built
ReadSecretLine(line) ==
    /\ pc = "authority"
    /\ LET text == RemoveBlanks(trim(read_line(line)))
           priv == AuthorityPriv(text)
       IN  /\ input' = text
           /\ IF priv.ok
              THEN /\ phi_n' = priv.val
                   /\ pc' = "collecting"
                   /\ i' = 1
                   /\ UNCHANGED panic
              ELSE /\ Abort(priv.msg)
                   /\ UNCHANGED <<phi_n, i>>
    /\ UNCHANGED <<r, vote_message, vote_ciphertext, vote_stack, m, product, m_total,
                   tally, votes, n_voters, report, history, args, out>>

\* "pop" that removes the oldest entry instead of the newest
PopLineFront(line) ==
    /\ pc = "collecting"
    /\ to_lowercase(trim(read_line(line))) = Str(<<"p", "o", "p">>)
    /\ input' = to_lowercase(trim(read_line(line)))
    /\ vote_stack' = IF vote_stack = <<>> THEN vote_stack ELSE Tail(vote_stack)
    /\ i' = i + 1
    /\ history' = Append(history, <<"pop">>)
    /\ UNCHANGED <<pc, r, vote_message, vote_ciphertext, phi_n, m, product, m_total,
                   tally, votes, n_voters, report, panic, args, out>>

\* main.rs:163-170  "pop"
PopLine(line) ==
    /\ pc = "collecting"
    /\ to_lowercase(trim(read_line(line))) = Str(<<"p", "o", "p">>)
    /\ input' = to_lowercase(trim(read_line(line)))
    /\ vote_stack' = IF vote_stack = <<>> THEN vote_stack
                     ELSE SubSeq(vote_stack, 1, Len(vote_stack) - 1)
    /\ i' = i + 1
    /\ history' = Append(history, <<"pop">>)
    /\ UNCHANGED <<pc, r, vote_message, vote_ciphertext, phi_n, m, product, m_total,
                   tally, votes, n_voters, report, panic, args, out>>

\* main.rs:172-178  any other line is a ciphertext: parsed, pushed, decrypted
SubmitLine(line) ==
    /\ pc = "collecting"
    /\ to_lowercase(trim(read_line(line))) \notin {Str(<<"x">>), Str(<<"p", "o", "p">>)}
    /\ LET text == to_lowercase(trim(read_line(line)))
           c == from_str_radix(text)
           dec == decrypt(c, AuthorityKeypair(phi_n))
       IN  /\ input' = text
           /\ IF c < 0
              THEN /\ Abort("Input ciphertext must be a valid Uint. Check if the word size is sufficient.")
                   /\ UNCHANGED <<vote_stack, history, m, i>>
              ELSE /\ vote_stack' = Append(vote_stack, c)
                   /\ history' = Append(history, <<"submit", c>>)
                   /\ IF dec.ok
                      THEN /\ m' = LowWord(dec.val)
                           /\ i' = i + 1
                           /\ UNCHANGED <<pc, panic>>
                      ELSE /\ Abort(dec.msg)
                           /\ UNCHANGED <<m, i>>
    /\ UNCHANGED <<r, vote_message, vote_ciphertext, phi_n, product, m_total, tally,
                   votes, n_voters, report, args, out>>

\* main.rs:161-162 and 181-220  "x": the loop ends; aggregate, decrypt,
\* decode and reconcile
TerminateLine(line) ==
    /\ pc = "collecting"
    /\ to_lowercase(trim(read_line(line))) = Str(<<"x">>)
    /\ input' = to_lowercase(trim(read_line(line)))
    /\ LET prod == Aggregate(vote_stack)
           dec == decrypt(prod, AuthorityKeypair(phi_n))
           m_total_small == LowWord(dec.val)
       IN  /\ product' = prod
           /\ IF ~dec.ok
              THEN /\ Abort(dec.msg)
                   /\ UNCHANGED <<m_total, tally, votes, n_voters, report>>
              ELSE IF dec.val # m_total_small
              THEN /\ Abort("Overflow when downcasting total votes to u64. Increase width...")
                   /\ m_total' = dec.val
                   /\ UNCHANGED <<tally, votes, n_voters, report>>
              ELSE /\ m_total' = dec.val
                   /\ tally' = Decode(m_total_small)
                   /\ votes' = SumSeq(Decode(m_total_small))
                   /\ n_voters' = Len(vote_stack)
                   /\ report' = Reconcile(SumSeq(Decode(m_total_small)), Len(vote_stack))
                   /\ pc' = "reported"
                   /\ UNCHANGED panic
    /\ UNCHANGED <<r, vote_message, vote_ciphertext, phi_n, vote_stack, i, m, history,
                   args, out>>

ReadSecret == \E line \in SecretLines : ReadSecretLine(line)

Pop == i <= MaxInputs /\ \E line \in CollectLines(vote_ciphertext) : PopLine(line)

Submit == i <= MaxInputs /\ \E line \in CollectLines(vote_ciphertext) : SubmitLine(line)

Terminate == i <= MaxInputs /\ \E line \in CollectLines(vote_ciphertext) : TerminateLine(line)

Next == Vote \/ ReadSecret \/ Pop \/ Submit \/ Terminate

Spec == Init /\ [][Next]_vars

----------------------------------------------------------------------------
(* A full election: up to N_VOTERS ballots, each the ciphertext a voter    *)
(* side printed for one candidate, typed in candidate order, then "x"      *)

\* the nonce of the ballots typed in
BallotNonce == CHOOSE x \in SafePrimes : \A y \in SafePrimes : x <= y

\* the ciphertext of a ballot for candidate k
BallotCipher(k) == Encrypt(Encode(k).val, BallotNonce)

ValidSecretLines ==
    { ToDec(FactorP) \o Str(<<",">>) \o ToDec(FactorQ), ToDec(Totient) }

ReadValidSecret == \E line \in ValidSecretLines : ReadSecretLine(line)

SubmitBallot ==
    /\ Len(vote_stack) < N_VOTERS
    /\ \E k \in 0..(N_CANDIDATES - 1) :
          /\ IF vote_stack = <<>> THEN TRUE
             ELSE \E j \in 0..k : vote_stack[Len(vote_stack)] = BallotCipher(j)
          /\ SubmitLine(ToDec(BallotCipher(k)))

TerminateElection == TerminateLine(Str(<<"x">>))

NextTally == Vote \/ ReadValidSecret \/ SubmitBallot \/ TerminateElection

SpecTally == Init /\ [][NextTally]_vars

----------------------------------------------------------------------------
(* The primitives on their own: the inputs are drawn at the start, the     *)
(* key is the authority's, and each step applies one primitive             *)

PlainSet == (0..MaxPlain) \cup {Pow2(per_candidate_bits), N - 1}

NonceSet == SafePrimes \cup {2}

InitPure ==
    /\ pc = "primitives"
    /\ args \in [idx : 0..MaxIdx, m1 : PlainSet, r1 : NonceSet,
                 m2 : PlainSet, r2 : NonceSet]
    /\ out = [stage |-> "start", enc |-> Err(""), dec |-> <<>>, c1 |-> 0, c2 |-> 0,
              agg |-> 0, p1 |-> Err(""), pagg |-> Err("")]
    /\ phi_n = from_primes(FactorP, FactorQ).val
    /\ r = 0
    /\ vote_message = 0
    /\ vote_ciphertext = 0
    /\ input = <<>>
    /\ vote_stack = <<>>
    /\ i = 0
    /\ m = 0
    /\ product = 0
    /\ m_total = 0
    /\ tally = <<>>
    /\ votes = 0
    /\ n_voters = 0
    /\ report = <<"none", 0>>
    /\ panic = ""
    /\ history = <<>>

PureFrame ==
    UNCHANGED <<pc, r, vote_message, vote_ciphertext, phi_n, input, vote_stack, i, m,
                product, m_total, tally, votes, n_voters, report, panic, history, args>>

\* the encoder on args.idx, and the decode loop on what it returned
ApplyEncode ==
    /\ pc = "primitives" /\ out.stage = "start"
    /\ LET enc == Encode(args.idx)
       IN  out' = [out EXCEPT !.stage = "encoded",
                              !.enc = enc,
                              !.dec = IF enc.ok THEN Decode(LowWord(enc.val)) ELSE <<>>]
    /\ PureFrame

\* two encryptions
ApplyEncrypt ==
    /\ pc = "primitives" /\ out.stage = "encoded"
    /\ out' = [out EXCEPT !.stage = "encrypted",
                          !.c1 = Encrypt(args.m1, args.r1),
                          !.c2 = Encrypt(args.m2, args.r2)]
    /\ PureFrame

\* the fold over the two ciphertexts
ApplyAggregate ==
    /\ pc = "primitives" /\ out.stage = "encrypted"
    /\ out' = [out EXCEPT !.stage = "aggregated",
                          !.agg = Aggregate(<<out.c1, out.c2>>)]
    /\ PureFrame

\* decrypt, of the first ciphertext and of the aggregate
ApplyDecrypt ==
    /\ pc = "primitives" /\ out.stage = "aggregated"
    /\ out' = [out EXCEPT !.stage = "decrypted",
                          !.p1 = decrypt(out.c1, AuthorityKeypair(phi_n)),
                          !.pagg = decrypt(out.agg, AuthorityKeypair(phi_n))]
    /\ PureFrame

NextPure == ApplyEncode \/ ApplyEncrypt \/ ApplyAggregate \/ ApplyDecrypt

SpecPure == InitPure /\ [][NextPure]_vars

----------------------------------------------------------------------------
(* Properties *)

RECURSIVE Gcd(_, _)
Gcd(a, b) == IF b = 0 THEN a ELSE Gcd(b, a % b)

\* the key pair holds the totient of the modulus stored beside it
ValidKey ==
    /\ IsPrime(FactorP) /\ IsPrime(FactorQ)
    /\ N = FactorP * FactorQ
    /\ phi_n = (FactorP - 1) * (FactorQ - 1)

\* the authority stage is over: a key pair has been built
KeyBuilt == i >= 1

\* the collection loop has read "x" and finalization has run or panicked
Finalized == KeyBuilt /\ input = Str(<<"x">>) /\ pc \in {"reported", "panicked"}

\* the stack the operations of the history leave: a submit appends its
\* ciphertext, a pop drops the last entry if there is one
RECURSIVE Surviving(_)
Surviving(h) ==
    IF h = <<>> THEN <<>>
    ELSE LET before == Surviving(SubSeq(h, 1, Len(h) - 1))
             op == h[Len(h)]
         IN  IF op[1] = "submit" THEN Append(before, op[2])
             ELSE IF before = <<>> THEN <<>>
             ELSE SubSeq(before, 1, Len(before) - 1)

\* C1: with a valid key, a plaintext m in [0, N) and a nonce coprime to N,
\* decrypt(encrypt(m, r)) returns exactly m.
C1_RoundTrip ==
    (/\ out.stage = "decrypted"
     /\ ValidKey
     /\ args.m1 \in 0..(N - 1)
     /\ Gcd(args.r1, N) = 1)
    => out.p1 = Ok(args.m1)

C1_Witness ==
    /\ out.stage = "decrypted"
    /\ ValidKey
    /\ args.m1 = N - 1
    /\ args.r1 \in SafePrimes
    /\ out.c1 = Encrypt(args.m1, args.r1)
    /\ out.p1 = Ok(N - 1)

\* C2: with a valid key, m1 + m2 < N and nonces coprime to N, the fold from 1
\* of the two ciphertexts decrypts to (m1 + m2) mod N.
C2_Homomorphism ==
    (/\ out.stage = "decrypted"
     /\ ValidKey
     /\ args.m1 \in 0..(N - 1) /\ args.m2 \in 0..(N - 1)
     /\ args.m1 + args.m2 < N
     /\ Gcd(args.r1, N) = 1 /\ Gcd(args.r2, N) = 1)
    => out.pagg = Ok((args.m1 + args.m2) % N)

C2_Witness ==
    /\ out.stage = "decrypted"
    /\ ValidKey
    /\ args.m1 = Pow2(per_candidate_bits) /\ args.m2 = 1
    /\ args.r1 # args.r2
    /\ out.c1 # out.c2
    /\ out.pagg = Ok(Pow2(per_candidate_bits) + 1)

\* C3: the aggregate the finalization computed is the fold of every
\* permutation of the vote stack.
C3_OrderIndependent ==
    Finalized =>
        \A f \in Permutations(1..Len(vote_stack)) :
            Aggregate([k \in 1..Len(vote_stack) |-> vote_stack[f[k]]]) = product

C3_Witness ==
    /\ Finalized
    /\ pc = "reported"
    /\ Len(vote_stack) >= 3
    /\ vote_stack[1] # vote_stack[2]
    /\ vote_stack[2] # vote_stack[3]
    /\ vote_stack[1] # vote_stack[3]
    /\ product = Aggregate(<<vote_stack[3], vote_stack[1], vote_stack[2]>>
                           \o SubSeq(vote_stack, 4, Len(vote_stack)))

\* C4: with a valid key and at most N_VOTERS ballots, each the encryption of
\* the encoding of a candidate, finalization reports for every candidate the
\* number of ballots submitted for it, and an exact match.
C4_BallotsCounted ==
    LET bc == [k \in 0..(N_CANDIDATES - 1) |-> BallotCipher(k)]
        count(k) == Cardinality({j \in 1..Len(vote_stack) : vote_stack[j] = bc[k]})
    IN  (/\ Finalized
         /\ ValidKey
         /\ Len(vote_stack) <= N_VOTERS
         /\ \A j \in 1..Len(vote_stack) :
               \E k \in 0..(N_CANDIDATES - 1) : vote_stack[j] = bc[k])
        => /\ pc = "reported"
           /\ \A k \in 0..(N_CANDIDATES - 1) : tally[k + 1] = count(k)
           /\ report = <<"exact", 0>>

\* C5: the vote stack is the sequence of submitted ciphertexts not cancelled
\* by a later pop (a pop on the empty stack cancels nothing), and the
\* aggregate, the tally and the ballot count are computed from it.
C5_UndoSemantics ==
    /\ KeyBuilt => vote_stack = Surviving(history)
    /\ pc = "reported" =>
          /\ product = Aggregate(Surviving(history))
          /\ n_voters = Len(Surviving(history))
          /\ tally = Decode(LowWord(m_total))
          /\ votes = SumSeq(tally)
          /\ Ok(m_total) = decrypt(Aggregate(Surviving(history)), AuthorityKeypair(phi_n))

C5_Witness ==
    /\ pc = "reported"
    /\ Len(history) = 3
    /\ history[1][1] = "submit" /\ history[2][1] = "submit" /\ history[3] = <<"pop">>
    /\ history[1][2] # history[2][2]
    /\ vote_stack = <<history[1][2]>>
    /\ ValidKey
    /\ history[1][2] = vote_ciphertext
    /\ n_voters = 1
    /\ product = vote_ciphertext
    /\ tally = Decode(vote_message)
    /\ report = <<"exact", 0>>

\* C6: finalization on an empty vote stack gives the aggregate 1, the
\* plaintext 0, a count of 0 for every candidate and an exact match against
\* 0 ballots.
C6_EmptyStack ==
    (Finalized /\ vote_stack = <<>>)
    => /\ pc = "reported"
       /\ product = 1
       /\ m_total = 0
       /\ tally = [k \in 1..N_CANDIDATES |-> 0]
       /\ n_voters = 0
       /\ report = <<"exact", 0>>

\* C7: with a valid key, no well-formed ciphertext line aborts the session:
\* the collection loop is left only by "x".
C7_SubmitNeverAborts ==
    (/\ KeyBuilt
     /\ ValidKey
     /\ from_str_radix(input) >= 0 \/ input = Str(<<"p", "o", "p">>))
    => pc = "collecting"

\* C8: with a valid key, finalization of any stack built during collection
\* reaches the report, with the reconciliation line that compares the sum of
\* the decoded counts with the stack length.
C8_FinalizationCompletes ==
    (Finalized /\ ValidKey)
    => /\ pc = "reported"
       /\ report = Reconcile(SumSeq(tally), Len(vote_stack))

\* C9: the key pair used for decryption holds N = p * q and
\* phi_N = (p - 1)(q - 1) for the same primes p, q, whichever path built it.
C9_KeyPairInvariant == KeyBuilt => ValidKey

\* C10: a candidate index that passes the encoder's range check is decoded
\* as exactly one vote, for that candidate and no other.
C10_EncoderDecoderAgree ==
    (out.stage # "start" /\ out.enc.ok)
    => /\ SumSeq(out.dec) = 1
       /\ \A k \in 1..N_CANDIDATES :
             out.dec[k] = (IF k = args.idx + 1 THEN 1 ELSE 0)

====
